---- MODULE Spec2Model ----
(***************************************************************************)
(* A model of bionumpy's encoded arrays (bionumpy/encoded_array.py), of    *)
(* its file dispatch and reader wrapper (bionumpy/files.py) and of the     *)
(* collaborators those two files call (encodings, chunked reader/writer,   *)
(* format buffers, chromosome stream provider).                            *)
(*                                                                         *)
(* Text is a sequence of character codes, so that rendering, encoding and  *)
(* decoding are computed and not assumed.  A value of the encoded-array    *)
(* part is a record                                                        *)
(*    [kind, encoding, ndim, data, shape, oid, exc]                        *)
(* whose data is always a sequence of rows (a 0-d or 1-d array has one     *)
(* row; a ragged array keeps its flat backing array as the one row and its *)
(* row lengths in shape).  oid is the object identity: "a" is the object   *)
(* the caller holds, "new" an object built by the call.                    *)
(***************************************************************************)
EXTENDS Integers, Sequences, FiniteSets, TLC

VARIABLES
    \* the encoded-array part
    arg,        \* the value the caller holds (input of the next call)
    target,     \* target_encoding of the last as_encoded_array call
    ret,        \* what the last call returned or raised
    op,         \* the last operation: "new" (a value was bound), or the name of the call
    origin,     \* the value the array in arg was made from by the call before, or
                \* the receiver as it was before the last operation on it
    operand,    \* the other operand of the last operation on an array
    index,      \* the index, or the numbers, the last operation on an array took
    calls,      \* how many operations have been called on arrays so far
    \* the file part
    path,       \* the file name of the session: the sequence of its suffixes
    disk,       \* the file of that name: [exists, bytes] (bytes as read through gzip or not)
    obj,        \* the object the caller got from bnp_open, with its byte stream
    pc,         \* "idle", or "with" inside the block of a with-statement on obj
    out,        \* what the last call on the file part returned or raised
    gen,        \* the generator behind the last read_chunks call
    chunks,     \* the record arrays that generator has yielded so far
    counted,    \* the reader the last call built and dropped, when it was count_entries
    \* the chromosome part
    buffers,    \* the record-array chunks the provider was built over
    provider,   \* the state of the provider's generator between two yields
    emitted,    \* the (name, group) pairs the provider has yielded so far
    stream      \* "none", "active", or "exhausted" once the iteration has ended

encVars == <<arg, target, ret, op, origin, operand, index, calls>>

ioVars == <<path, disk, obj, pc, out, gen, chunks, counted>>

chromVars == <<buffers, provider, emitted, stream>>

vars ==
    <<arg, target, ret, op, origin, operand, index, calls, path, disk, obj, pc, out, gen, chunks, counted,
      buffers, provider, emitted, stream>>

----------------------------------------------------------------------------
(* Bounds *)

MaxLen == 22

MaxRows == 2

MaxSuffixes == 2

MaxRecords == 2

MaxChunk == 3

MaxStreamRows == 4

MaxIdx == 3

MaxCalls == 2

(* Program constants *)

StrLimit == 20

StrCharLimit == 40

DefaultChunkSize == 5000000

----------------------------------------------------------------------------
(* Sequence helpers *)

Take(s, n) == SubSeq(s, 1, IF n < Len(s) THEN n ELSE Len(s))

Drop(s, n) == SubSeq(s, (IF n < Len(s) THEN n ELSE Len(s)) + 1, Len(s))

RECURSIVE Flatten(_)
Flatten(ss) == IF ss = <<>> THEN <<>> ELSE Head(ss) \o Flatten(Tail(ss))

RECURSIVE SplitByLens(_, _)
SplitByLens(flat, lens) ==
    IF lens = <<>> THEN <<>>
    ELSE <<Take(flat, Head(lens))>> \o SplitByLens(Drop(flat, Head(lens)), Tail(lens))

Lens(rows) == [i \in 1..Len(rows) |-> Len(rows[i])]

EndsWith(s, suffix) ==
    /\ Len(s) >= Len(suffix)
    /\ SubSeq(s, Len(s) - Len(suffix) + 1, Len(s)) = suffix

----------------------------------------------------------------------------
(* Encodings (bionumpy/encodings): stateless strategy objects.             *)

NoEncoding == "None"

BaseEncoding == "BaseEncoding"

IdentityEncoding == "IdentityEncoding"

DNAEncoding == "DNAEncoding"

QualityEncoding == "QualityEncoding"

ReducedEncoding == "ReducedEncoding"

Encodings ==
    {BaseEncoding, IdentityEncoding, DNAEncoding, QualityEncoding, ReducedEncoding}

\* the encodings as_encoded_array tags an EncodedArray with (it wraps no numeric one)
WrappedEncodings == {BaseEncoding, IdentityEncoding, DNAEncoding, ReducedEncoding}

\* "ACGT"
Alphabet == <<65, 67, 71, 84>>

AlphabetIndex(c) == CHOOSE i \in 1..Len(Alphabet) : Alphabet[i] = c

is_base_encoding(E) == E \in {BaseEncoding, IdentityEncoding}

is_one_to_one_encoding(E) == E \in {BaseEncoding, IdentityEncoding, DNAEncoding}

is_numeric(E) == E = QualityEncoding

EncodeChar(E, c) ==
    CASE E = DNAEncoding -> AlphabetIndex(c) - 1
      [] E = QualityEncoding -> c - 33
      [] E = ReducedEncoding -> IF c \in {65, 71} THEN 0 ELSE 1
      [] OTHER -> c

DecodeCode(E, x) ==
    CASE E = DNAEncoding -> Alphabet[x + 1]
      [] E = QualityEncoding -> x + 33
      [] E = ReducedEncoding -> IF x = 0 THEN 82 ELSE 89
      [] OTHER -> x

Encode(E, rows) ==
    [i \in 1..Len(rows) |-> [j \in 1..Len(rows[i]) |-> EncodeChar(E, rows[i][j])]]

Decode(E, rows) ==
    [i \in 1..Len(rows) |-> [j \in 1..Len(rows[i]) |-> DecodeCode(E, rows[i][j])]]

\* to_string of one symbol code under an encoding that cannot be decoded to text
ToStringElement(E, x) == <<DecodeCode(E, x)>>

\* to_string of a whole array: its elements' renderings, one after the other
ToStringArray(E, rows) ==
    Flatten([i \in 1..Len(rows) |->
                Flatten([j \in 1..Len(rows[i]) |-> ToStringElement(E, rows[i][j])])])

----------------------------------------------------------------------------
(* Values *)

Val(kind, encoding, ndim, data, shape, oid) ==
    [kind |-> kind, encoding |-> encoding, ndim |-> ndim, data |-> data,
     shape |-> shape, oid |-> oid, exc |-> "none"]

Raise(exc) ==
    [kind |-> "raise", encoding |-> NoEncoding, ndim |-> 0, data |-> <<>>,
     shape |-> <<>>, oid |-> "new", exc |-> exc]

NoValue ==
    [kind |-> "none", encoding |-> NoEncoding, ndim |-> 0, data |-> <<>>,
     shape |-> <<>>, oid |-> "new", exc |-> "none"]

StrValue(text, oid) == Val("str", NoEncoding, 1, <<text>>, <<>>, oid)

ListValue(rows, oid) == Val("list", NoEncoding, 1, rows, <<>>, oid)

NdArray(data, ndim, oid) == Val("ndarray", NoEncoding, ndim, data, <<>>, oid)

RaggedArray(flat, shape, oid) == Val("RaggedArray", NoEncoding, 1, <<flat>>, shape, oid)

\* EncodedArray.__init__ on raw data
EncodedArray(data, encoding, ndim, oid) ==
    Val("EncodedArray", encoding, ndim, data, <<>>, oid)

\* EncodedRaggedArray.__init__: the encoding is read through the flat backing array
EncodedRaggedArray(flatArray, shape, oid) ==
    Val("EncodedRaggedArray", flatArray.encoding, 1, flatArray.data, shape, oid)

IsEncoded(v) == v.kind \in {"EncodedArray", "EncodedRaggedArray"}

IsRaise(v) == v.kind = "raise"

\* s.ravel(): the flat array behind a ragged array
Ravel(s) ==
    IF s.kind = "EncodedRaggedArray"
    THEN EncodedArray(s.data, s.encoding, 1, "new")
    ELSE NdArray(s.data, 1, "new")

----------------------------------------------------------------------------
(* Conversion functions of encoded_array.py *)

_encode_base_encoded_array(encoded_array, target_encoding) ==
    IF ~is_base_encoding(encoded_array.encoding) THEN Raise("AssertionError")
    ELSE LET data == Encode(target_encoding, encoded_array.data) IN
         IF is_numeric(target_encoding)
         THEN NdArray(data, encoded_array.ndim, "new")
         ELSE EncodedArray(data, target_encoding, encoded_array.ndim, "new")

_encode_encoded_array(encoded_array, target_encoding) ==
    IF encoded_array.kind # "EncodedArray" THEN Raise("AssertionError")
    ELSE IF encoded_array.encoding = target_encoding THEN encoded_array
    ELSE IF encoded_array.encoding = BaseEncoding
         THEN _encode_base_encoded_array(encoded_array, target_encoding)
    ELSE IF target_encoding = BaseEncoding
         THEN EncodedArray(Decode(encoded_array.encoding, encoded_array.data),
                           BaseEncoding, encoded_array.ndim, "new")
    ELSE Raise("IncompatibleEncodingsException")

np_array_as_encoded_array(s, target_encoding) ==
    IF ~is_numeric(target_encoding) THEN Raise("AssertionError") ELSE s

encode_string(s, target_encoding) ==
    _encode_base_encoded_array(EncodedArray(s.data, IdentityEncoding, 1, "new"),
                               target_encoding)

RECURSIVE as_encoded_array(_, _)

ragged_array_as_encoded_array(s, target_encoding) ==
    LET data == as_encoded_array(Ravel(s), target_encoding) IN
    IF IsRaise(data) THEN data
    ELSE IF data.kind = "EncodedArray" THEN EncodedRaggedArray(data, s.shape, "new")
    ELSE RaggedArray(data.data[1], s.shape, "new")

encode_list_of_strings(s, target_encoding) ==
    ragged_array_as_encoded_array(
        EncodedRaggedArray(EncodedArray(<<Flatten(s.data)>>, BaseEncoding, 1, "new"),
                           Lens(s.data), "new"),
        target_encoding)

\* the branch of lines 323-330 on an already encoded input
AlreadyEncodedCheck_NoneIsBase(s, target_encoding) ==
    LET t == IF target_encoding = NoEncoding THEN BaseEncoding ELSE target_encoding IN
    IF s.encoding = t THEN s
    ELSE IF s.encoding # BaseEncoding THEN Raise("EncodingException")
    ELSE NoValue

AlreadyEncodedCheck_AllowsBaseTarget(s, target_encoding) ==
    IF target_encoding = NoEncoding \/ s.encoding = target_encoding THEN s
    ELSE IF s.encoding # BaseEncoding /\ target_encoding # BaseEncoding
         THEN Raise("EncodingException")
    ELSE NoValue

AlreadyEncodedCheck(s, target_encoding) ==
    IF target_encoding = NoEncoding \/ s.encoding = target_encoding THEN s
    ELSE IF s.encoding # BaseEncoding THEN Raise("EncodingException")
    ELSE NoValue

as_encoded_array(s, target_encoding) ==
    LET early == IF IsEncoded(s) THEN AlreadyEncodedCheck(s, target_encoding)
                 ELSE NoValue
        t == IF ~IsEncoded(s) /\ target_encoding = NoEncoding
             THEN BaseEncoding ELSE target_encoding
    IN  IF early # NoValue THEN early
        ELSE CASE s.kind = "str" -> encode_string(s, t)
               [] s.kind = "list" -> encode_list_of_strings(s, t)
               [] s.kind \in {"RaggedArray", "EncodedRaggedArray"} ->
                      ragged_array_as_encoded_array(s, t)
               [] s.kind = "ndarray" -> np_array_as_encoded_array(s, t)
               [] OTHER -> _encode_encoded_array(s, t)

\* from_encoded_array that renders as __str__ does: 20 symbols and a marker
from_encoded_array_First20(encoded_array) ==
    LET E == encoded_array.encoding
        cut(text) == Take(text, StrLimit) \o (IF Len(text) > StrLimit THEN <<46, 46, 46>>
                                              ELSE <<>>)
    IN  IF encoded_array.kind = "EncodedRaggedArray"
        THEN LET rows == Decode(E, SplitByLens(encoded_array.data[1], encoded_array.shape))
             IN  ListValue([i \in 1..Len(rows) |-> cut(rows[i])], "new")
        ELSE IF encoded_array.ndim # 1 THEN Raise("TypeError")
        ELSE StrValue(cut(Decode(E, encoded_array.data)[1]), "new")

\* from_encoded_array: all the symbols as text, row by row for a ragged array
from_encoded_array(encoded_array) ==
    LET E == encoded_array.encoding IN
    IF encoded_array.kind = "EncodedRaggedArray"
    THEN ListValue(Decode(E, SplitByLens(encoded_array.data[1], encoded_array.shape)),
                   "new")
    ELSE IF encoded_array.ndim # 1 THEN Raise("TypeError")
    ELSE StrValue(Decode(E, encoded_array.data)[1], "new")

----------------------------------------------------------------------------
(* EncodedArray.__str__ *)

Ellipsis == <<46, 46, 46>>

JoinCommaSpace(parts) ==
    Flatten([i \in 1..Len(parts) |->
                IF i = 1 THEN parts[i] ELSE <<44, 32>> \o parts[i]])

\* line 165: the decoded vector, cut to 20 characters, "..." when more exist
StrVector_OffByOne(text) ==
    Take(text, StrLimit) \o (IF Len(text) >= StrLimit THEN Ellipsis ELSE <<>>)

StrVector(text) ==
    Take(text, StrLimit) \o (IF Len(text) > StrLimit THEN Ellipsis ELSE <<>>)

\* the result is a sequence of lines: one line, or one line per matrix row shown
__str__(a) ==
    IF ~is_one_to_one_encoding(a.encoding)
    THEN CASE a.ndim = 0 -> <<ToStringElement(a.encoding, a.data[1][1])>>
           [] a.ndim = 1 ->
                  LET data_to_show == Take(a.data[1], StrLimit) IN
                  << <<91>> \o JoinCommaSpace(
                        [i \in 1..Len(data_to_show) |->
                            ToStringElement(a.encoding, data_to_show[i])]) \o <<93>> >>
           [] OTHER -> <<Take(ToStringArray(a.encoding, a.data), StrCharLimit) \o Ellipsis>>
    ELSE LET text == Decode(a.encoding, a.data) IN
         CASE a.ndim = 0 -> <<text[1]>>
           [] a.ndim = 1 -> <<StrVector(text[1])>>
           [] OTHER -> Take([i \in 1..Len(text) |-> StrVector(text[i])], StrLimit)

----------------------------------------------------------------------------
(* Format buffers (bionumpy/file_buffers.py, delimited_buffers.py).  Every  *)
(* format shares one byte grammar here: a record r is r bytes of value r    *)
(* and the terminator 0; a piece that is not of that form breaks the        *)
(* grammar.                                                                 *)

Terminator == 0

MalformedByte == 9

RecordIds == {1, 2}

RecordBytes(r) == [j \in 1..r |-> r] \o <<Terminator>>

MalformedRecord == <<MalformedByte, Terminator>>

\* from_data: a record array's rows as bytes
from_data(rows) == Flatten([i \in 1..Len(rows) |-> RecordBytes(rows[i])])

\* the index of the last terminator of the bytes, 0 when there is none
RECURSIVE LastBoundary(_)
LastBoundary(bytes) ==
    IF bytes = <<>> THEN 0
    ELSE IF bytes[Len(bytes)] = Terminator THEN Len(bytes)
    ELSE LastBoundary(SubSeq(bytes, 1, Len(bytes) - 1))

\* the pieces between terminators; bytes after the last terminator are a piece too
RECURSIVE Pieces(_, _)
Pieces(bytes, cur) ==
    IF bytes = <<>> THEN (IF cur = <<>> THEN <<>> ELSE <<cur>>)
    ELSE IF Head(bytes) = Terminator THEN <<cur>> \o Pieces(Tail(bytes), <<>>)
    ELSE Pieces(Tail(bytes), Append(cur, Head(bytes)))

WellFormed(piece) ==
    /\ piece # <<>>
    /\ piece[1] \in RecordIds
    /\ piece = [j \in 1..piece[1] |-> piece[1]]

\* the record array of a schema: its type and its rows
RecordArray(type, rows) == [type |-> type, rows |-> rows]

\* count_entries: the complete records of a buffer, without decoding them
count_entries_of_buffer(bytes) == Len(SelectSeq(bytes, LAMBDA b : b = Terminator))

----------------------------------------------------------------------------
(* The suffix table of files.py *)

SuffixKeys ==
    <<".vcf", ".bed", ".narrowPeak", ".fasta", ".fa", ".fastq", ".fq", ".gfa",
      ".gff", ".gtf", ".gff3", ".sam", ".bam", ".sizes">>

buffer_types ==
    [s \in {SuffixKeys[i] : i \in 1..Len(SuffixKeys)} |->
        CASE s = ".vcf" -> "VCFBuffer"
          [] s = ".bed" -> "BedBuffer"
          [] s = ".narrowPeak" -> "NarrowPeakBuffer"
          [] s \in {".fasta", ".fa"} -> "MultiLineFastaBuffer"
          [] s \in {".fastq", ".fq"} -> "FastQBuffer"
          [] s = ".gfa" -> "GfaSequenceBuffer"
          [] s \in {".gff", ".gtf", ".gff3"} -> "GFFEntryBuffer"
          [] s = ".sam" -> "SAMEntryBuffer"
          [] s = ".bam" -> "BamBuffer"
          [] OTHER -> "ChromosomeSizeBuffer"]

\* buffer_type.dataclass: the record schema a buffer type decodes to
dataclass(buffer_type) ==
    CASE buffer_type = "VCFBuffer" -> "Variant"
      [] buffer_type = "BedBuffer" -> "Interval"
      [] buffer_type = "NarrowPeakBuffer" -> "NarrowPeak"
      [] buffer_type = "MultiLineFastaBuffer" -> "SequenceEntry"
      [] buffer_type = "FastQBuffer" -> "SequenceEntryWithQuality"
      [] buffer_type = "GfaSequenceBuffer" -> "SequenceEntry"
      [] buffer_type = "GFFEntryBuffer" -> "GFFEntry"
      [] buffer_type = "SAMEntryBuffer" -> "SAMEntry"
      [] buffer_type = "BamBuffer" -> "BamEntry"
      [] buffer_type = "ChromosomeSizeBuffer" -> "ChromosomeSize"
      [] OTHER -> "Custom"

NoMode == "None"

Modes == {NoMode, "r", "w", "write", "wb", "a"}

NoBufferType == "None"

----------------------------------------------------------------------------
(* Results of the calls of the file part *)

NoMsg == [suffix |-> "", supported |-> <<>>]

Out(call, kind, data, exc, msg) ==
    [call |-> call, kind |-> kind, data |-> data, exc |-> exc, msg |-> msg,
     mode |-> NoMode, buffer_type |-> NoBufferType]

NoData == RecordArray("none", <<>>)

NoOut == Out("none", "none", NoData, "none", NoMsg)

\* a call that returned a record array
Returned(call, data) == Out(call, "records", data, "none", NoMsg)

\* a call that returned something that is no record array: an object, None, nothing
ReturnedOther(call, kind) == Out(call, kind, NoData, "none", NoMsg)

Raised(call, exc) == Out(call, "raise", NoData, exc, NoMsg)

\* get_data: the buffer decoded into the schema of its type, or the format violation
get_data(call, buffer_type, bytes) ==
    LET pieces == Pieces(bytes, <<>>) IN
    IF \E i \in 1..Len(pieces) : ~WellFormed(pieces[i])
    THEN Raised(call, "FormatException")
    ELSE Returned(call, RecordArray(dataclass(buffer_type),
                                    [i \in 1..Len(pieces) |-> pieces[i][1]]))

----------------------------------------------------------------------------
(* Objects: a reader wrapper over a chunked reader over a byte stream, a    *)
(* writer over a byte stream, an indexed FASTA reader.                      *)

NoObj ==
    [kind |-> "none", buffer_type |-> NoBufferType,
     is_gzip |-> FALSE, stream |-> "none", open |-> FALSE, scoped |-> FALSE,
     do_prepend |-> FALSE, pos |-> 0, leftover |-> <<>>, base |-> <<>>]

\* NumpyFileReader(open_func(filename, "rb"), buffer_type) in an NpDataclassReader
NewReader(buffer_type, is_gzip) ==
    [NoObj EXCEPT !.kind = "NpDataclassReader", !.buffer_type = buffer_type, !.is_gzip = is_gzip,
                  !.stream = "rb", !.open = TRUE]

\* NpBufferedWriter(open_func(filename, "wb"), buffer_type)
NewWriter(buffer_type, is_gzip) ==
    [NoObj EXCEPT !.kind = "NpBufferedWriter", !.buffer_type = buffer_type, !.is_gzip = is_gzip,
                  !.stream = "wb", !.open = TRUE]

\* IndexedFasta(filename[:-4])
NewIndexedFasta(base) ==
    [NoObj EXCEPT !.kind = "IndexedFasta", !.base = base]

\* file_reader.set_prepend_mode()
set_prepend_mode(reader) == [reader EXCEPT !.do_prepend = TRUE]

\* close() of the chunked reader or of the writer: releases the stream
close(o) == [o EXCEPT !.open = FALSE]

----------------------------------------------------------------------------
(* The chunked reader (bionumpy/parser.py, NumpyFileReader).  Each of its   *)
(* operations gives the reader after the call and what the call returned:   *)
(* the bytes of a format buffer, or None at the end of the stream.          *)

ReaderResult(reader, kind, bytes) == [reader |-> reader, kind |-> kind, bytes |-> bytes]

\* read(): drains the stream into one buffer covering all bytes
NumpyFileReader_read(reader, bytes) ==
    ReaderResult([reader EXCEPT !.pos = Len(bytes), !.leftover = <<>>],
                 "buffer",
                 reader.leftover \o SubSeq(bytes, reader.pos + 1, Len(bytes)))

\* read_chunk(chunk_size): the leftover of the chunk before and up to chunk_size
\* fresh bytes, cut back to the last complete record while the stream goes on; the
\* bytes cut off are carried over.  None once nothing is left.
NumpyFileReader_read_chunk(reader, bytes, chunk_size) ==
    LET last == IF reader.pos + chunk_size < Len(bytes)
                THEN reader.pos + chunk_size ELSE Len(bytes)
        fresh == SubSeq(bytes, reader.pos + 1, last)
        data == reader.leftover \o fresh
        cut == IF Len(fresh) < chunk_size THEN Len(data) ELSE LastBoundary(data)
    IN  IF data = <<>> THEN ReaderResult(reader, "None", <<>>)
        ELSE ReaderResult([reader EXCEPT !.pos = last, !.leftover = Drop(data, cut)],
                          "buffer", Take(data, cut))

----------------------------------------------------------------------------
(* The reader wrapper of files.py (NpDataclassReader) *)

ClosedFile(call) == Raised(call, "ValueError")

WrapperResult(reader, result) == [obj |-> reader, out |-> result]

\* read(): self._reader.read().get_data()
NpDataclassReader_read(reader, bytes) ==
    IF ~reader.open THEN WrapperResult(reader, ClosedFile("read"))
    ELSE LET r == NumpyFileReader_read(reader, bytes) IN
         WrapperResult(r.reader, get_data("read", reader.buffer_type, r.bytes))

\* read_chunk(chunk_size) that hands the end-of-stream sentinel on
NpDataclassReader_read_chunk_Sentinel(reader, bytes, chunk_size) ==
    IF ~reader.open THEN WrapperResult(reader, ClosedFile("read_chunk"))
    ELSE LET r == NumpyFileReader_read_chunk(reader, bytes, chunk_size) IN
         IF r.kind = "None"
         THEN WrapperResult(r.reader, ReturnedOther("read_chunk", "None"))
         ELSE WrapperResult(r.reader, get_data("read_chunk", reader.buffer_type, r.bytes))

\* read_chunk(chunk_size): an empty record array of the bound schema for None
NpDataclassReader_read_chunk(reader, bytes, chunk_size) ==
    IF ~reader.open THEN WrapperResult(reader, ClosedFile("read_chunk"))
    ELSE LET r == NumpyFileReader_read_chunk(reader, bytes, chunk_size) IN
         IF r.kind = "None"
         THEN WrapperResult(r.reader,
                  Returned("read_chunk", RecordArray(dataclass(reader.buffer_type), <<>>)))
         ELSE WrapperResult(r.reader, get_data("read_chunk", reader.buffer_type, r.bytes))

\* one step of the generator of read_chunks(chunk_size): the next chunk of the
\* chunked reader decoded, or the end of the iteration
NpDataclassReader_read_chunks_next_SkipsData(reader, bytes, chunk_size) ==
    IF ~reader.open THEN WrapperResult(reader, ClosedFile("next"))
    ELSE LET r == NumpyFileReader_read_chunk(reader, bytes, chunk_size) IN
         IF r.kind = "None"
         THEN WrapperResult(r.reader, ReturnedOther("next", "StopIteration"))
         ELSE WrapperResult([r.reader EXCEPT !.leftover = <<>>],
                            get_data("next", reader.buffer_type, r.bytes))

NpDataclassReader_read_chunks_next(reader, bytes, chunk_size) ==
    IF ~reader.open THEN WrapperResult(reader, ClosedFile("next"))
    ELSE LET r == NumpyFileReader_read_chunk(reader, bytes, chunk_size) IN
         IF r.kind = "None"
         THEN WrapperResult(r.reader, ReturnedOther("next", "StopIteration"))
         ELSE WrapperResult(r.reader, get_data("next", reader.buffer_type, r.bytes))

\* __exit__(exc_type, exc_value, traceback): closes whatever the exit path
NpDataclassReader___exit___OnlyOnSuccess(reader, exc_type) ==
    IF exc_type = "none" THEN close(reader) ELSE reader

NpDataclassReader___exit__(reader, exc_type) == close(reader)

\* the methods of the class; any other attribute is an AttributeError
NpDataclassReader_methods ==
    {"__enter__", "__exit__", "read", "read_chunk", "read_chunks", "__iter__"}

\* the writer (bionumpy/parser.py, NpBufferedWriter)
NpBufferedWriter_methods == {"__enter__", "__exit__", "write", "close"}

Supports(o, method) ==
    CASE o.kind = "NpDataclassReader" -> method \in NpDataclassReader_methods
      [] o.kind = "NpBufferedWriter" -> method \in NpBufferedWriter_methods
      [] OTHER -> FALSE

----------------------------------------------------------------------------
(* Dispatch: _get_buffer_type, _get_buffered_file, bnp_open of files.py.    *)
(* A file name is the sequence of its suffixes, as PurePath.suffixes gives  *)
(* them.  Each function gives the object built (or none), what the call     *)
(* returned or raised, and whether it opened the file "rb", "wb" or not.    *)

OpenResult(o, result) == [obj |-> o, out |-> result]

_get_buffer_type_message_DropsOne(suffix) ==
    [suffix |-> suffix, supported |-> Tail(SuffixKeys)]

\* the message of the RuntimeError: the suffix and the keys of the table
_get_buffer_type_message(suffix) ==
    [suffix |-> suffix, supported |-> SuffixKeys]

\* _get_buffered_file that never calls set_prepend_mode
_get_buffered_file_NoPrepend(suffix, mode, is_gzip, buffer_type, exists) ==
    IF buffer_type = NoBufferType /\ suffix \notin DOMAIN buffer_types
    THEN [obj |-> NoObj,
          out |-> Out("bnp_open", "raise", NoData, "RuntimeError",
                      [suffix |-> suffix, supported |-> SuffixKeys])]
    ELSE LET bt == IF buffer_type = NoBufferType THEN buffer_types[suffix]
                   ELSE buffer_type
         IN  IF mode \in {"w", "write", "wb"}
             THEN [obj |-> NewWriter(bt, is_gzip), out |-> ReturnedOther("bnp_open", "object")]
             ELSE IF ~exists
             THEN [obj |-> NoObj, out |-> Raised("bnp_open", "FileNotFoundError")]
             ELSE [obj |-> NewReader(bt, is_gzip),
                   out |-> ReturnedOther("bnp_open", "object")]

_get_buffered_file(suffix, mode, is_gzip, buffer_type, exists) ==
    IF buffer_type = NoBufferType /\ suffix \notin DOMAIN buffer_types
    THEN OpenResult(NoObj, Out("bnp_open", "raise", NoData, "RuntimeError",
                               _get_buffer_type_message(suffix)))
    ELSE LET bt == IF buffer_type = NoBufferType THEN buffer_types[suffix]
                   ELSE buffer_type
         IN  IF mode \in {"w", "write", "wb"}
             THEN OpenResult(NewWriter(bt, is_gzip),
                             ReturnedOther("bnp_open", "object"))
             ELSE IF ~exists
             THEN OpenResult(NoObj, Raised("bnp_open", "FileNotFoundError"))
             ELSE OpenResult(IF is_gzip
                             THEN set_prepend_mode(NewReader(bt, is_gzip))
                             ELSE NewReader(bt, is_gzip),
                             ReturnedOther("bnp_open", "object"))

\* filename[:-4] of a name that ends in .fai, or in .fai.gz (which leaves ".fa")
StripLast4(filename) ==
    IF filename[Len(filename)] = ".fai"
    THEN SubSeq(filename, 1, Len(filename) - 1)
    ELSE Append(SubSeq(filename, 1, Len(filename) - 2), ".fa")

bnp_open(filename, mode, buffer_type, exists) ==
    IF filename = <<>> THEN OpenResult(NoObj, Raised("bnp_open", "IndexError"))
    ELSE LET last == filename[Len(filename)]
             is_gzip == last \in {".gz", ".bam"}
         IN  IF last = ".gz" /\ Len(filename) < 2
             THEN OpenResult(NoObj, Raised("bnp_open", "IndexError"))
             ELSE LET suffix == IF last = ".gz" THEN filename[Len(filename) - 1]
                                ELSE last
                  IN  IF suffix = ".fai"
                      THEN IF mode \in {"w", "write", "wb"}
                           THEN OpenResult(NoObj, Raised("bnp_open", "AssertionError"))
                           ELSE OpenResult(NewIndexedFasta(StripLast4(filename)),
                                           ReturnedOther("bnp_open", "object"))
                      ELSE _get_buffered_file(suffix, mode, is_gzip, buffer_type, exists)

\* file_reader.read_chunks() summed over chunk.count_entries(): the reader after
\* its last chunk and the sum
RECURSIVE SumChunkCounts(_, _)
SumChunkCounts(reader, bytes) ==
    LET r == NumpyFileReader_read_chunk(reader, bytes, DefaultChunkSize) IN
    IF r.kind = "None" THEN [reader |-> r.reader, n |-> 0]
    ELSE LET rest == SumChunkCounts(r.reader, bytes) IN
         [reader |-> rest.reader, n |-> count_entries_of_buffer(r.bytes) + rest.n]

\* the reader count_entries builds: a chunked reader with no wrapper around it
NewNumpyFileReader(buffer_type, is_gzip) ==
    [NewReader(buffer_type, is_gzip) EXCEPT !.kind = "NumpyFileReader"]

Counted(n) == Out("count_entries", "int", RecordArray("int", <<n>>), "none", NoMsg)

count_entries(filename, buffer_type, exists, bytes) ==
    IF filename = <<>> THEN OpenResult(NoObj, Raised("count_entries", "IndexError"))
    ELSE LET last == filename[Len(filename)]
             is_gzip == last \in {".gz", ".bam"}
         IN  IF last = ".gz" /\ Len(filename) < 2
             THEN OpenResult(NoObj, Raised("count_entries", "IndexError"))
             ELSE LET suffix == IF last = ".gz" THEN filename[Len(filename) - 1]
                                ELSE last
                  IN  IF buffer_type = NoBufferType /\ suffix \notin DOMAIN buffer_types
                      THEN OpenResult(NoObj,
                               Out("count_entries", "raise", NoData, "RuntimeError",
                                   _get_buffer_type_message(suffix)))
                      ELSE IF ~exists
                      THEN OpenResult(NoObj, Raised("count_entries", "FileNotFoundError"))
                      ELSE LET bt == IF buffer_type = NoBufferType
                                     THEN buffer_types[suffix] ELSE buffer_type
                               file_reader == IF is_gzip
                                              THEN set_prepend_mode(
                                                       NewNumpyFileReader(bt, is_gzip))
                                              ELSE NewNumpyFileReader(bt, is_gzip)
                               sum == SumChunkCounts(file_reader, bytes)
                           IN  OpenResult(sum.reader, Counted(sum.n))

----------------------------------------------------------------------------
(* Operations of EncodedArray. Indices count from 0 as in the code; an     *)
(* index is a record [kind, i, lo, hi, pos, lens].                          *)

NoIdx == [kind |-> "none", i |-> 0, lo |-> 0, hi |-> 0, pos |-> <<>>, lens |-> <<>>]

\* a[i]
IntIdx(i) == [NoIdx EXCEPT !.kind = "int", !.i = i]

\* a[lo:hi]
SliceIdx(lo, hi) == [NoIdx EXCEPT !.kind = "slice", !.lo = lo, !.hi = hi]

\* a[r] for a ragged array r of positions with row lengths lens
RaggedIdx(pos, lens) == [NoIdx EXCEPT !.kind = "ragged", !.pos = pos, !.lens = lens]

\* the numbers of a call that takes no index, kept where an index is kept:
\* the shape of reshape, the length and the stride of as_strided
ShapeArg(shape) == [NoIdx EXCEPT !.kind = "shape", !.lens = shape]

StridesArg(n, stride) == [NoIdx EXCEPT !.kind = "strides", !.lo = n, !.hi = stride]

\* the items along the first axis: the elements of a vector, the rows of a matrix
Items(a) == IF a.ndim = 2 THEN a.data ELSE IF a.ndim = 1 THEN a.data[1] ELSE <<>>

\* x stretched to n items, as numpy broadcasts one item
Broadcast(x, n) == IF Len(x) = n THEN x ELSE [k \in 1..n |-> x[1]]

CanBroadcast(x, n) == Len(x) = n \/ Len(x) = 1

InRange(i, n) == i < n /\ i >= -n

\* numpy's ndarray.__getitem__ on self.data
ndarray___getitem__(a, idx) ==
    LET items == Items(a)
        n == Len(items)
    IN  IF a.ndim = 0 THEN Raise("IndexError")
        ELSE CASE idx.kind = "int" ->
                    IF ~InRange(idx.i, n) THEN Raise("IndexError")
                    ELSE LET x == items[(idx.i % n) + 1] IN
                         IF a.ndim = 1 THEN NdArray(<<<<x>>>>, 0, "new")
                                       ELSE NdArray(<<x>>, 1, "new")
               [] idx.kind = "slice" ->
                    LET sub == Drop(Take(items, idx.hi), idx.lo) IN
                    NdArray(IF a.ndim = 2 THEN sub ELSE <<sub>>, a.ndim, "new")
               [] OTHER ->
                    IF \E k \in 1..Len(idx.pos) : ~InRange(idx.pos[k], n)
                    THEN Raise("IndexError")
                    ELSE RaggedArray([k \in 1..Len(idx.pos) |-> items[(idx.pos[k] % n) + 1]],
                                     idx.lens, "new")

\* __getitem__ that builds its result with the constructor's default encoding
__getitem___DefaultEncoding(self, idx) ==
    LET new_data == ndarray___getitem__(self, idx) IN
    IF IsRaise(new_data) THEN new_data
    ELSE IF new_data.kind = "RaggedArray"
         THEN EncodedRaggedArray(EncodedArray(new_data.data, BaseEncoding, 1, "new"),
                                 new_data.shape, "new")
    ELSE EncodedArray(new_data.data, BaseEncoding, new_data.ndim, "new")

__getitem__(self, idx) ==
    LET new_data == ndarray___getitem__(self, idx) IN
    IF IsRaise(new_data) THEN new_data
    ELSE IF new_data.kind = "RaggedArray"
         THEN EncodedRaggedArray(EncodedArray(new_data.data, self.encoding, 1, "new"),
                                 new_data.shape, "new")
    ELSE EncodedArray(new_data.data, self.encoding, new_data.ndim, "new")

\* numpy's ndarray.__setitem__ on the data of a vector: the cells idx names
AssignedCells(n, idx) ==
    IF idx.kind = "int" THEN {(idx.i % n) + 1}
    ELSE {k \in 1..n : k > idx.lo /\ k <= idx.hi}

\* __setitem__ on a vector; the result is the receiver after the assignment
__setitem__(self, idx, value) ==
    IF value.kind \notin {"str", "EncodedArray"} THEN Raise("AssertionError")
    ELSE LET v == IF value.kind = "str" THEN encode_string(value, self.encoding)
                  ELSE value
             items == Items(self)
             n == Len(items)
         IN  IF idx.kind = "int" /\ ~InRange(idx.i, n) THEN Raise("IndexError")
             ELSE LET cells == AssignedCells(n, idx)
                      flat == Flatten(v.data)
                      first == IF idx.kind = "int" THEN (idx.i % n) + 1 ELSE idx.lo + 1
                  IN  IF ~CanBroadcast(flat, Cardinality(cells)) THEN Raise("ValueError")
                      ELSE [self EXCEPT !.data =
                              <<[k \in 1..n |->
                                   IF k \in cells
                                   THEN Broadcast(flat, Cardinality(cells))[k - first + 1]
                                   ELSE items[k]]>>]

\* the k-th element (from 0) that iter(self) yields
__iter___element(self, k) ==
    IF self.ndim = 0 THEN Raise("TypeError")
    ELSE IF k >= Len(Items(self)) THEN Raise("StopIteration")
    ELSE LET element == Items(self)[k + 1] IN
         IF self.ndim = 1 THEN EncodedArray(<<<<element>>>>, self.encoding, 0, "new")
                          ELSE EncodedArray(<<element>>, self.encoding, 1, "new")

\* reshape to a vector (one number) or a matrix (two numbers)
reshape(self, shape) ==
    LET flat == Flatten(self.data) IN
    IF Len(shape) = 1
    THEN IF shape[1] # Len(flat) THEN Raise("ValueError")
         ELSE EncodedArray(<<flat>>, self.encoding, 1, "new")
    ELSE IF shape[1] * shape[2] # Len(flat) THEN Raise("ValueError")
         ELSE EncodedArray(SplitByLens(flat, [r \in 1..shape[1] |-> shape[2]]),
                           self.encoding, 2, "new")

ravel(self) == EncodedArray(<<Flatten(self.data)>>, self.encoding, 1, "new")

\* as_strided to a vector of n items, stride items apart. An item beyond the
\* buffer is a read of memory the array does not own: it gives whatever byte
\* is there (garbage), or the process dies (crash).
as_strided(self, n, stride, garbage, crash) ==
    LET flat == Flatten(self.data)
        beyond == \E k \in 0..(n - 1) : k * stride + 1 > Len(flat)
    IN  IF beyond /\ crash THEN Raise("SegmentationFault")
        ELSE EncodedArray(<<[k \in 1..n |->
                               IF (k - 1) * stride + 1 > Len(flat) THEN garbage
                               ELSE flat[(k - 1) * stride + 1]]>>,
                          self.encoding, 1, "new")

\* numpy.bincount on the codes of a vector
bincount(x) ==
    LET codes == {x[k] : k \in 1..Len(x)}
        top == CHOOSE m \in codes : \A c \in codes : c <= m
    IN  IF x = <<>> THEN <<>>
        ELSE [c \in 1..(top + 1) |-> Cardinality({k \in 1..Len(x) : x[k] = c - 1})]

ArrayFunctions ==
    {"bincount", "concatenate", "where", "zeros_like", "append", "insert",
     "sliding_window_view", "sort"}

\* __array_function__ for func(self, ...) on vectors: other is the second
\* array, p the number the function takes (the condition of where is true for
\* the first p items, insert puts other at position p, p is the window length)
__array_function__(self, func, other, p) ==
    LET a == Items(self)
        b == Items(other)
        n == IF Len(a) > Len(b) THEN Len(a) ELSE Len(b)
        wrap(data, ndim) == EncodedArray(data, self.encoding, ndim, "new")
    IN  CASE func = "bincount" -> NdArray(<<bincount(a)>>, 1, "new")
          [] func = "concatenate" -> wrap(<<a \o b>>, 1)
          [] func = "where" ->
                IF ~(CanBroadcast(a, n) /\ CanBroadcast(b, n))
                THEN Raise("ValueError")
                ELSE wrap(<<[k \in 1..n |-> IF k <= p THEN Broadcast(a, n)[k]
                                                      ELSE Broadcast(b, n)[k]]>>, 1)
          [] func = "zeros_like" -> wrap(<<[k \in 1..Len(a) |-> 0]>>, 1)
          [] func = "append" -> wrap(<<a \o b>>, 1)
          [] func = "insert" ->
                IF p > Len(a) THEN Raise("IndexError")
                ELSE wrap(<<Take(a, p) \o b \o Drop(a, p)>>, 1)
          [] func = "sliding_window_view" ->
                IF p > Len(a) THEN Raise("ValueError")
                ELSE wrap([k \in 1..(Len(a) - p + 1) |-> SubSeq(a, k, k + p - 1)], 2)
          [] OTHER -> Raise("TypeError")

----------------------------------------------------------------------------
(* Inputs of the encoded-array part *)

Text(n, k) == [i \in 1..n |-> Alphabet[((i + k) % Len(Alphabet)) + 1]]

Texts == {Text(n, k) : n \in 0..MaxLen, k \in 1..Len(Alphabet)}

ShortTexts == {Text(n, k) : n \in 0..MaxRows, k \in 1..Len(Alphabet)}

TextLists == UNION {[1..r -> ShortTexts] : r \in 0..MaxRows}

Matrix(r, c) == [i \in 1..r |-> Text(c, i)]

Matrices == {Matrix(r, c) : r \in 0..MaxLen, c \in 1..MaxLen}

EncInputs ==
    {StrValue(t, "a") : t \in Texts}
    \cup {ListValue(l, "a") : l \in TextLists}
    \cup {EncodedArray(Encode(E, <<t>>), E, 1, "a") : t \in Texts, E \in WrappedEncodings}
    \cup {EncodedArray(Encode(E, <<Text(1, k)>>), E, 0, "a") :
              k \in 1..Len(Alphabet), E \in WrappedEncodings}
    \cup {EncodedArray(Encode(E, m), E, 2, "a") : m \in Matrices, E \in WrappedEncodings}
    \cup {EncodedRaggedArray(EncodedArray(Encode(E, <<Flatten(l)>>), E, 1, "a"),
                             Lens(l), "a") : l \in TextLists, E \in WrappedEncodings}
    \cup {NdArray(Encode(QualityEncoding, <<t>>), 1, "a") : t \in ShortTexts}
    \cup {EncodedArray(Encode(QualityEncoding, <<t>>), QualityEncoding, 1, "a") :
              t \in ShortTexts}
    \cup {RaggedArray(Flatten(Encode(QualityEncoding, l)), Lens(l), "a") : l \in TextLists}

\* the arrays the operations are called on
ArrInputs ==
    {EncodedArray(Encode(E, <<Text(n, 1)>>), E, 1, "a") :
        n \in 0..MaxIdx, E \in WrappedEncodings}
    \cup {EncodedArray(Encode(E, Matrix(r, r)), E, 2, "a") :
              r \in 1..(MaxIdx - 1), E \in WrappedEncodings}
    \cup {EncodedArray(Encode(E, <<Text(1, 1)>>), E, 0, "a") : E \in WrappedEncodings}

\* the values assigned into them and the second arrays of the array functions
ArrValues ==
    {StrValue(Text(n, 1), "v") : n \in {1, MaxRows}}
    \cup {EncodedArray(Encode(E, <<Text(n, 1)>>), E, 1, "v") :
              n \in {1, MaxRows}, E \in {BaseEncoding, DNAEncoding}}
    \cup {EncodedArray(Encode(DNAEncoding, <<Text(1, 1)>>), DNAEncoding, 0, "v")}
    \cup {NdArray(<<Text(1, 1)>>, 1, "v")}

Indices ==
    {IntIdx(i) : i \in {-1, 0, MaxIdx}}
    \cup {SliceIdx(lo, hi) : lo \in 0..1, hi \in 2..MaxIdx}
    \cup {RaggedIdx([k \in 1..MaxIdx |-> k % 2], <<j, MaxIdx - j>>) : j \in 0..1}

Shapes == {<<n>> : n \in 1..MaxIdx} \cup {<<r, c>> : r \in 1..2, c \in 2..MaxIdx}

GarbageCodes == {0, 71}

----------------------------------------------------------------------------
(* Inputs of the file part *)

InputSuffixes == {".bed", ".fq", ".fa", ".bam", ".gz", ".fai", ".csv"}

Filenames == UNION {[1..n -> InputSuffixes] : n \in 0..MaxSuffixes}

\* the files of the sessions that read and write
SessionFiles == {<<".bed">>, <<".fq", ".gz">>}

DiskPieces == {RecordBytes(r) : r \in RecordIds} \cup {MalformedRecord}

Contents == {Flatten(ps) : ps \in UNION {[1..n -> DiskPieces] : n \in 0..MaxRecords}}

Absent == [exists |-> FALSE, bytes |-> <<>>]

Disks == {Absent} \cup {[exists |-> TRUE, bytes |-> c] : c \in Contents}

WriteInputs == UNION {[1..n -> RecordIds] : n \in 0..MaxRecords}

ChunkSizes == (1..MaxChunk) \cup {DefaultChunkSize}

BufferTypeArgs == {NoBufferType, "CustomBuffer"}

\* the name has a format suffix: its last suffix, the one before a last .gz
HasFormatSuffix(filename) ==
    /\ filename # <<>>
    /\ filename[Len(filename)] = ".gz" => Len(filename) >= 2

FormatSuffix(filename) ==
    IF filename[Len(filename)] = ".gz" THEN filename[Len(filename) - 1]
    ELSE filename[Len(filename)]

DispatchesToIndex(filename) ==
    HasFormatSuffix(filename) /\ FormatSuffix(filename) = ".fai"

----------------------------------------------------------------------------
(* Chromosome-grouped streaming (bionumpy/chromosome_provider.py) over the  *)
(* record arrays of tests/test_chromosome_provider.py.  A chromosome name   *)
(* is a row of character codes; the rows of one record array have one       *)
(* width, shorter names padded on the left with the null code.              *)

NullCode == 0

chr1 == <<99, 104, 114, 49>>

chr2 == <<99, 104, 114, 50>>

chr3 == <<99, 104, 114, 51>>

chr4 == <<99, 104, 114, 52>>

chr5 == <<99, 104, 114, 53>>

chr16 == <<99, 104, 114, 49, 54>>

\* a name written with one leading null byte, "\x00chr5"
NullPrefixed(name) == <<NullCode>> \o name

DummyClass(chromosome, data) == [chromosome |-> chromosome, data |-> data]

NoGroup == DummyClass(<<>>, <<>>)

\* chromosome.shape[-1]
StrLen(object) == Len(object.chromosome[1])

MaxOf(ns) == CHOOSE m \in {ns[i] : i \in 1..Len(ns)} : \A i \in 1..Len(ns) : ns[i] <= m

\* chroms[start:end, -l:] = o.chromosome on zeros: the padding comes first
PlaceLeft(name, width) == [i \in 1..(width - Len(name)) |-> NullCode] \o name

\* DummyClass.concatenate with chroms[start:end, :l] = o.chromosome: padding last
concatenate_PadsAfter(objects) ==
    LET chrom_str_lens == [i \in 1..Len(objects) |-> StrLen(objects[i])]
        max_len == MaxOf(chrom_str_lens)
        placed(o) ==
            [j \in 1..Len(o.chromosome) |->
                o.chromosome[j]
                    \o [i \in 1..(max_len - Len(o.chromosome[j])) |-> NullCode]]
    IN  DummyClass(Flatten([i \in 1..Len(objects) |-> placed(objects[i])]),
                   Flatten([i \in 1..Len(objects) |-> objects[i].data]))

\* DummyClass.concatenate that returns the first of the objects
concatenate_FirstOnly(objects) == objects[1]

\* DummyClass.concatenate
concatenate(objects) ==
    LET chrom_str_lens == [i \in 1..Len(objects) |-> StrLen(objects[i])]
        max_len == MaxOf(chrom_str_lens)
        placed(o) == [j \in 1..Len(o.chromosome) |-> PlaceLeft(o.chromosome[j], max_len)]
        chroms == IF \A i \in 1..Len(objects) : chrom_str_lens[i] = max_len
                  THEN Flatten([i \in 1..Len(objects) |-> objects[i].chromosome])
                  ELSE Flatten([i \in 1..Len(objects) |-> placed(objects[i])])
    IN  DummyClass(chroms, Flatten([i \in 1..Len(objects) |-> objects[i].data]))

\* the fixture `buffers`
FixtureBuffers ==
    <<DummyClass(<<chr1, chr1>>, <<0, 1>>),
      DummyClass(<<chr1, chr2>>, <<2, 3>>),
      DummyClass(<<chr3, chr4, chr5>>, <<4, 5, 6>>),
      DummyClass(<<NullPrefixed(chr5), chr16>>, <<7, 8>>)>>

\* the pairs test_chromosome_stream compares the stream with
FixtureExpected ==
    <<[name |-> chr1, group |-> DummyClass(<<chr1, chr1, chr1>>, <<0, 1, 2>>)],
      [name |-> chr2, group |-> DummyClass(<<chr2>>, <<3>>)],
      [name |-> chr3, group |-> DummyClass(<<chr3>>, <<4>>)],
      [name |-> chr4, group |-> DummyClass(<<chr4>>, <<5>>)],
      [name |-> chr5,
       group |-> DummyClass(<<NullPrefixed(chr5), NullPrefixed(chr5)>>, <<6, 7>>)],
      [name |-> chr16, group |-> DummyClass(<<chr16>>, <<8>>)]>>

\* the name without its null padding
get_chrom_name(row) == SelectSeq(row, LAMBDA c : c # NullCode)

\* two rows name one chromosome: they differ by leading null padding at most
_is_same_chromosome(row_1, row_2) ==
    LET m == IF Len(row_1) < Len(row_2) THEN Len(row_1) ELSE Len(row_2)
        tail(row) == SubSeq(row, Len(row) - m + 1, Len(row))
        pad(row) == SubSeq(row, 1, Len(row) - m)
    IN  /\ tail(row_1) = tail(row_2)
        /\ \A i \in 1..Len(pad(row_1)) : pad(row_1)[i] = NullCode
        /\ \A i \in 1..Len(pad(row_2)) : pad(row_2)[i] = NullCode

\* file_buffer[start:end]
Slice(object, start, end) ==
    DummyClass(SubSeq(object.chromosome, start, end), SubSeq(object.data, start, end))

\* the number of leading rows of the record array that name the chromosome of row
RECURSIVE RunLength(_, _)
RunLength(rows, row) ==
    IF rows = <<>> \/ ~_is_same_chromosome(Head(rows), row) THEN 0
    ELSE 1 + RunLength(Tail(rows), row)

\* The generator of the incremental provider between two of its yields:
\* consumed chunks of the input, rest the rows of the last chunk taken that
\* are not grouped yet, cur_data the parts of the current chromosome's group.
ProviderState(consumed, rest, cur_data) ==
    [consumed |-> consumed, rest |-> rest, cur_data |-> cur_data]

NoPair == [name |-> <<>>, group |-> NoGroup]

ProviderStep(state, kind, pair) == [state |-> state, kind |-> kind, pair |-> pair]

last_chromosome(cur_data) == cur_data[Len(cur_data)].chromosome[1]

\* runs the generator to its next yield or to its end
RECURSIVE ChromosomeFileStreamProvider_next(_, _)
ChromosomeFileStreamProvider_next(input, s) ==
    IF s.rest.data = <<>>
    THEN IF s.consumed < Len(input)
         THEN ChromosomeFileStreamProvider_next(input,
                  ProviderState(s.consumed + 1, input[s.consumed + 1], s.cur_data))
         ELSE IF s.cur_data = <<>> THEN ProviderStep(s, "StopIteration", NoPair)
         ELSE ProviderStep(ProviderState(s.consumed, s.rest, <<>>), "yield",
                           [name |-> get_chrom_name(last_chromosome(s.cur_data)),
                            group |-> concatenate(s.cur_data)])
    ELSE IF s.cur_data = <<>>
            \/ _is_same_chromosome(last_chromosome(s.cur_data), s.rest.chromosome[1])
    THEN LET n == RunLength(s.rest.chromosome, s.rest.chromosome[1]) IN
         ChromosomeFileStreamProvider_next(input,
             ProviderState(s.consumed, Slice(s.rest, n + 1, Len(s.rest.data)),
                           Append(s.cur_data, Slice(s.rest, 1, n))))
    ELSE ProviderStep(ProviderState(s.consumed, s.rest, <<>>), "yield",
                      [name |-> get_chrom_name(last_chromosome(s.cur_data)),
                       group |-> concatenate(s.cur_data)])

----------------------------------------------------------------------------
(* Inputs of the chromosome part: the fixture, and every chromosome-        *)
(* contiguous sequence of at most MaxStreamRows rows over three names cut   *)
(* into non-empty chunks.                                                   *)

ChromosomeNames == {chr1, chr5, chr16}

\* no name comes back after another one has started
Contiguous(names) ==
    \A i, j, k \in 1..Len(names) :
        (i < j /\ j < k /\ names[i] = names[k]) => names[j] = names[i]

\* a record array of rows first..last of the stream, its names at one width
Chunk(names, first, last) ==
    LET width == MaxOf([i \in 1..(last - first + 1) |-> Len(names[first + i - 1])]) IN
    DummyClass([i \in 1..(last - first + 1) |-> PlaceLeft(names[first + i - 1], width)],
               [i \in 1..(last - first + 1) |-> first + i - 2])

\* the stream cut after every row i with cut[i]
RECURSIVE Chunked(_, _, _, _)
Chunked(names, cut, first, i) ==
    IF i = Len(names) THEN <<Chunk(names, first, i)>>
    ELSE IF cut[i] THEN <<Chunk(names, first, i)>> \o Chunked(names, cut, i + 1, i + 1)
    ELSE Chunked(names, cut, first, i + 1)

ChunkStreams ==
    {Chunked(names, cut, 1, 1) :
        <<names, cut>> \in UNION {
            {names \in [1..n -> ChromosomeNames] : Contiguous(names)}
                \X [1..(n - 1) -> BOOLEAN] : n \in 1..MaxStreamRows}}

ChromInputs == {FixtureBuffers} \cup ChunkStreams

ChromIdle ==
    /\ buffers = <<>>
    /\ provider = ProviderState(0, NoGroup, <<>>)
    /\ emitted = <<>>
    /\ stream = "none"

----------------------------------------------------------------------------
(* The file part as a state machine: one caller, one file name, one object  *)
(* at a time.  An exception raised by a call inside a with-block leaves the *)
(* block through __exit__ in the same step.                                 *)

NoGen == [state |-> "none", size |-> 0, fresh |-> FALSE]

IoIdle ==
    /\ path = <<>>
    /\ disk = Absent
    /\ obj = NoObj
    /\ pc = "idle"
    /\ out = NoOut
    /\ gen = NoGen
    /\ chunks = <<>>
    /\ counted = NoObj

EncIdle ==
    /\ arg = NoValue
    /\ target = NoEncoding
    /\ ret = NoValue
    /\ op = "none"
    /\ origin = NoValue
    /\ operand = NoValue
    /\ index = NoIdx
    /\ calls = 0

IoInit ==
    /\ path \in SessionFiles
    /\ disk \in Disks
    /\ obj = NoObj
    /\ pc = "idle"
    /\ out = NoOut
    /\ gen = NoGen
    /\ chunks = <<>>
    /\ counted = NoObj
    /\ EncIdle
    /\ ChromIdle

Exhausted(reader, bytes) == reader.pos = Len(bytes) /\ reader.leftover = <<>>

\* __exit__ of the object of a with-statement
Exit(o, exc_type) ==
    IF o.kind = "NpDataclassReader" THEN NpDataclassReader___exit__(o, exc_type)
    ELSE close(o)

\* the object and the caller's position after a call on the object returned result
AfterCall(o, result) ==
    /\ out' = result
    /\ IF pc = "with" /\ result.kind = "raise"
       THEN obj' = Exit(o, result.exc) /\ pc' = "idle"
       ELSE obj' = o /\ pc' = pc

HoldsFileObject == obj.kind \in {"NpDataclassReader", "NpBufferedWriter"}

\* bnp_open(path, mode, buffer_type=...), as `with bnp_open(...) as f:` when scoped
BnpOpen(mode, buffer_type, scoped) ==
    /\ pc = "idle"
    /\ obj.kind = "none"
    /\ buffer_type # NoBufferType => ~DispatchesToIndex(path)
    /\ LET r == bnp_open(path, mode, buffer_type, disk.exists)
           isFile == r.obj.kind \in {"NpDataclassReader", "NpBufferedWriter"}
       IN  /\ obj' = IF isFile THEN [r.obj EXCEPT !.scoped = scoped] ELSE r.obj
           /\ pc' = IF isFile /\ scoped THEN "with" ELSE "idle"
           /\ disk' = IF r.obj.stream = "wb" THEN [exists |-> TRUE, bytes |-> <<>>]
                      ELSE disk
           /\ out' = [r.out EXCEPT !.mode = mode, !.buffer_type = buffer_type]
    /\ gen' = NoGen
    /\ chunks' = <<>>
    /\ counted' = NoObj
    /\ UNCHANGED path
    /\ UNCHANGED <<encVars, chromVars>>

Read ==
    /\ HoldsFileObject
    /\ gen.state # "active"
    /\ IF Supports(obj, "read")
       THEN LET r == NpDataclassReader_read(obj, disk.bytes) IN AfterCall(r.obj, r.out)
       ELSE AfterCall(obj, Raised("read", "AttributeError"))
    /\ UNCHANGED <<path, disk, gen, chunks>>
    /\ UNCHANGED <<counted, encVars, chromVars>>

ReadChunk(chunk_size) ==
    /\ HoldsFileObject
    /\ gen.state # "active"
    /\ IF Supports(obj, "read_chunk")
       THEN LET r == NpDataclassReader_read_chunk(obj, disk.bytes, chunk_size)
            IN  AfterCall(r.obj, r.out)
       ELSE AfterCall(obj, Raised("read_chunk", "AttributeError"))
    /\ UNCHANGED <<path, disk, gen, chunks>>
    /\ UNCHANGED <<counted, encVars, chromVars>>

\* read_chunks(chunk_size): builds the lazy stream; nothing is read yet
ReadChunks(chunk_size) ==
    /\ HoldsFileObject
    /\ gen.state # "active"
    /\ IF Supports(obj, "read_chunks")
       THEN /\ AfterCall(obj, ReturnedOther("read_chunks", "stream"))
            /\ gen' = [state |-> "active", size |-> chunk_size,
                       fresh |-> obj.pos = 0 /\ obj.leftover = <<>>]
       ELSE /\ AfterCall(obj, Raised("read_chunks", "AttributeError"))
            /\ gen' = NoGen
    /\ chunks' = <<>>
    /\ UNCHANGED <<path, disk>>
    /\ UNCHANGED <<counted, encVars, chromVars>>

\* the consumer asks the stream of read_chunks for its next record array
NextChunk ==
    /\ HoldsFileObject
    /\ gen.state = "active"
    /\ LET r == NpDataclassReader_read_chunks_next(obj, disk.bytes, gen.size) IN
       /\ AfterCall(r.obj, r.out)
       /\ gen' = [gen EXCEPT !.state = CASE r.out.kind = "records" -> "active"
                                          [] r.out.kind = "raise" -> "failed"
                                          [] OTHER -> "done"]
       /\ chunks' = IF r.out.kind = "records" THEN Append(chunks, r.out.data)
                    ELSE chunks
    /\ UNCHANGED <<path, disk>>
    /\ UNCHANGED <<counted, encVars, chromVars>>

\* write(data) on the object
Write(rows) ==
    /\ HoldsFileObject
    /\ IF ~Supports(obj, "write")
       THEN AfterCall(obj, Raised("write", "AttributeError")) /\ disk' = disk
       ELSE IF ~obj.open
       THEN AfterCall(obj, Raised("write", "ValueError")) /\ disk' = disk
       ELSE /\ count_entries_of_buffer(disk.bytes) + Len(rows) <= MaxRecords
            /\ AfterCall(obj, ReturnedOther("write", "ok"))
            /\ disk' = [disk EXCEPT !.bytes = @ \o from_data(rows)]
    /\ UNCHANGED <<path, gen, chunks>>
    /\ UNCHANGED <<counted, encVars, chromVars>>

\* the with-block ends normally
LeaveWith ==
    /\ pc = "with"
    /\ obj' = Exit(obj, "none")
    /\ pc' = "idle"
    /\ out' = ReturnedOther("__exit__", "ok")
    /\ UNCHANGED <<path, disk, gen, chunks>>
    /\ UNCHANGED <<counted, encVars, chromVars>>

\* the caller lets go of the object (nothing closes a stream it left open)
DropObject ==
    /\ pc = "idle"
    /\ obj.kind # "none"
    /\ obj' = NoObj
    /\ out' = NoOut
    /\ gen' = NoGen
    /\ chunks' = <<>>
    /\ UNCHANGED <<path, disk, pc>>
    /\ UNCHANGED <<counted, encVars, chromVars>>

\* count_entries(path, buffer_type=...); finalized: the runtime has disposed of
\* the reader the call dropped (and with it of its stream) by the time it ends
CountEntries(buffer_type, finalized) ==
    /\ pc = "idle"
    /\ obj.kind = "none"
    /\ LET r == count_entries(path, buffer_type, disk.exists, disk.bytes) IN
       /\ out' = [r.out EXCEPT !.buffer_type = buffer_type]
       /\ counted' = IF finalized /\ r.obj.open THEN close(r.obj) ELSE r.obj
    /\ UNCHANGED <<path, disk, obj, pc, gen, chunks>>
    /\ UNCHANGED <<encVars, chromVars>>

\* a session on one of the session files: every operation
IoNext ==
    \/ \E m \in Modes, scoped \in BOOLEAN : BnpOpen(m, NoBufferType, scoped)
    \/ Read
    \/ \E n \in ChunkSizes : ReadChunk(n)
    \/ \E n \in ChunkSizes : ReadChunks(n)
    \/ NextChunk
    \/ \E rows \in WriteInputs : Write(rows)
    \/ LeaveWith
    \/ DropObject
    \/ \E finalized \in BOOLEAN : CountEntries(NoBufferType, finalized)

SpecIO == IoInit /\ [][IoNext]_vars

\* the dispatch of every file name, mode and buffer_type argument
OpenInit ==
    /\ path \in Filenames
    /\ disk \in {Absent, [exists |-> TRUE, bytes |-> from_data(<<1, 2>>)]}
    /\ obj = NoObj
    /\ pc = "idle"
    /\ out = NoOut
    /\ gen = NoGen
    /\ chunks = <<>>
    /\ counted = NoObj
    /\ EncIdle
    /\ ChromIdle

OpenNext ==
    \/ \E m \in Modes, bt \in BufferTypeArgs, scoped \in BOOLEAN : BnpOpen(m, bt, scoped)
    \/ LeaveWith
    \/ DropObject
    \/ \E bt \in BufferTypeArgs, finalized \in BOOLEAN : CountEntries(bt, finalized)

SpecOpen == OpenInit /\ [][OpenNext]_vars

----------------------------------------------------------------------------
(* The encoded-array part as a state machine *)

\* the caller starts with any of the values it can build
EncInit ==
    /\ arg \in EncInputs
    /\ target = NoEncoding
    /\ ret = NoValue
    /\ op = "new"
    /\ origin = NoValue
    /\ operand = NoValue
    /\ index = NoIdx
    /\ calls = 0
    /\ IoIdle
    /\ ChromIdle

\* the caller goes on with the array the last call returned
Rebind ==
    /\ op = "as_encoded_array"
    /\ ret.kind \in {"EncodedArray", "EncodedRaggedArray", "ndarray", "RaggedArray"}
    /\ ret.oid = "new"
    /\ arg' = [ret EXCEPT !.oid = "a"]
    /\ origin' = arg
    /\ target' = NoEncoding
    /\ ret' = NoValue
    /\ op' = "new"
    /\ UNCHANGED <<operand, index, calls>>
    /\ UNCHANGED <<ioVars, chromVars>>

CallAsEncodedArray(t) ==
    /\ ret' = as_encoded_array(arg, t)
    /\ target' = t
    /\ op' = "as_encoded_array"
    /\ UNCHANGED <<arg, origin, operand, index, calls>>
    /\ UNCHANGED <<ioVars, chromVars>>

CallStr ==
    /\ arg.kind = "EncodedArray"
    /\ ret' = Val("text", NoEncoding, 1, __str__(arg), <<>>, "new")
    /\ target' = NoEncoding
    /\ op' = "str"
    /\ UNCHANGED <<arg, origin, operand, index, calls>>
    /\ UNCHANGED <<ioVars, chromVars>>

CallFromEncodedArray ==
    /\ IsEncoded(arg)
    /\ ret' = from_encoded_array(arg)
    /\ target' = NoEncoding
    /\ op' = "from_encoded_array"
    /\ UNCHANGED <<arg, origin, operand, index, calls>>
    /\ UNCHANGED <<ioVars, chromVars>>

EncNext ==
    \/ Rebind
    \/ CallFromEncodedArray
    \/ \E t \in Encodings \cup {NoEncoding} : CallAsEncodedArray(t)
    \/ CallStr

SpecEnc == EncInit /\ [][EncNext]_vars

----------------------------------------------------------------------------
(* The operations of EncodedArray as a state machine: a caller holds the   *)
(* array arg, calls one operation after the other on it, and may go on     *)
(* with an array an operation returned.                                     *)

ArrInit ==
    /\ arg \in ArrInputs
    /\ target = NoEncoding
    /\ ret = NoValue
    /\ op = "new"
    /\ origin = NoValue
    /\ operand = NoValue
    /\ index = NoIdx
    /\ calls = 0
    /\ IoIdle
    /\ ChromIdle

GetItem(i) ==
    /\ calls < MaxCalls
    /\ arg.kind = "EncodedArray"
    /\ i.kind = "ragged" => arg.ndim = 1
    /\ ret' = __getitem__(arg, i)
    /\ op' = "__getitem__"
    /\ origin' = arg
    /\ operand' = NoValue
    /\ index' = i
    /\ calls' = calls + 1
    /\ UNCHANGED <<arg, target>>
    /\ UNCHANGED <<ioVars, chromVars>>

\* a[i] = v on a vector: the receiver changes in place, nothing is returned
SetItem(i, v) ==
    /\ calls < MaxCalls
    /\ arg.kind = "EncodedArray"
    /\ arg.ndim = 1
    /\ i.kind \in {"int", "slice"}
    /\ LET r == __setitem__(arg, i, v) IN
       /\ arg' = IF IsRaise(r) THEN arg ELSE r
       /\ ret' = IF IsRaise(r) THEN r ELSE NoValue
    /\ op' = "__setitem__"
    /\ origin' = arg
    /\ operand' = v
    /\ index' = i
    /\ calls' = calls + 1
    /\ UNCHANGED target
    /\ UNCHANGED <<ioVars, chromVars>>

\* the k-th step of a loop over the array
Iterate(k) ==
    /\ calls < MaxCalls
    /\ arg.kind = "EncodedArray"
    /\ ret' = __iter___element(arg, k)
    /\ op' = "__iter__"
    /\ origin' = arg
    /\ operand' = NoValue
    /\ index' = IntIdx(k)
    /\ calls' = calls + 1
    /\ UNCHANGED <<arg, target>>
    /\ UNCHANGED <<ioVars, chromVars>>

Reshape(shape) ==
    /\ calls < MaxCalls
    /\ arg.kind = "EncodedArray"
    /\ ret' = reshape(arg, shape)
    /\ op' = "reshape"
    /\ origin' = arg
    /\ operand' = NoValue
    /\ index' = ShapeArg(shape)
    /\ calls' = calls + 1
    /\ UNCHANGED <<arg, target>>
    /\ UNCHANGED <<ioVars, chromVars>>

CallRavel ==
    /\ calls < MaxCalls
    /\ arg.kind = "EncodedArray"
    /\ ret' = ravel(arg)
    /\ op' = "ravel"
    /\ origin' = arg
    /\ operand' = NoValue
    /\ index' = NoIdx
    /\ calls' = calls + 1
    /\ UNCHANGED <<arg, target>>
    /\ UNCHANGED <<ioVars, chromVars>>

AsStrided(n, stride, garbage, crash) ==
    /\ calls < MaxCalls
    /\ arg.kind = "EncodedArray"
    /\ ret' = as_strided(arg, n, stride, garbage, crash)
    /\ op' = "as_strided"
    /\ origin' = arg
    /\ operand' = NoValue
    /\ index' = StridesArg(n, stride)
    /\ calls' = calls + 1
    /\ UNCHANGED <<arg, target>>
    /\ UNCHANGED <<ioVars, chromVars>>

\* func(arg, other) of numpy on two vectors
ArrayFunction(func, other, p) ==
    /\ calls < MaxCalls
    /\ arg.kind = "EncodedArray"
    /\ arg.ndim = 1
    /\ other.kind = "EncodedArray"
    /\ other.ndim = 1
    /\ ret' = __array_function__(arg, func, other, p)
    /\ op' = func
    /\ origin' = arg
    /\ operand' = other
    /\ index' = IntIdx(p)
    /\ calls' = calls + 1
    /\ UNCHANGED <<arg, target>>
    /\ UNCHANGED <<ioVars, chromVars>>

\* the caller goes on with the array the last operation returned
Continue ==
    /\ calls < MaxCalls
    /\ ret.kind = "EncodedArray"
    /\ arg' = [ret EXCEPT !.oid = "a"]
    /\ ret' = NoValue
    /\ op' = "new"
    /\ origin' = arg
    /\ operand' = NoValue
    /\ index' = NoIdx
    /\ UNCHANGED <<target, calls>>
    /\ UNCHANGED <<ioVars, chromVars>>

ArrNext ==
    \/ \E i \in Indices : GetItem(i)
    \/ \E i \in Indices, v \in ArrValues : SetItem(i, v)
    \/ \E k \in {0, MaxIdx} : Iterate(k)
    \/ \E shape \in Shapes : Reshape(shape)
    \/ CallRavel
    \/ \E n \in {1, MaxIdx + 1}, stride \in 1..2, garbage \in GarbageCodes, crash \in BOOLEAN :
          AsStrided(n, stride, garbage, crash)
    \/ \E func \in ArrayFunctions, other \in ArrValues, p \in 1..2 :
          ArrayFunction(func, other, p)
    \/ Continue

SpecArr == ArrInit /\ [][ArrNext]_vars

----------------------------------------------------------------------------
(* The chromosome part as a state machine: a consumer pulls the pairs of    *)
(* ChromosomeFileStreamProvider(buffers) one by one.                        *)

ChromInit ==
    /\ buffers \in ChromInputs
    /\ provider = ProviderState(0, NoGroup, <<>>)
    /\ emitted = <<>>
    /\ stream = "active"
    /\ EncIdle
    /\ IoIdle

\* next() on the iterator of the provider
NextPair ==
    /\ stream = "active"
    /\ LET r == ChromosomeFileStreamProvider_next(buffers, provider) IN
       /\ provider' = r.state
       /\ emitted' = IF r.kind = "yield" THEN Append(emitted, r.pair) ELSE emitted
       /\ stream' = IF r.kind = "yield" THEN "active" ELSE "exhausted"
    /\ UNCHANGED buffers
    /\ UNCHANGED <<encVars, ioVars>>

ChromNext == NextPair

SpecChrom == ChromInit /\ [][ChromNext]_vars

----------------------------------------------------------------------------
(* Claims about the encoded-array part *)

\* C1: as_encoded_array(a, E) and as_encoded_array(a) on an Encoded (Ragged)
\* Array a tagged E return a itself: the same object, with the same codes, the
\* same shape and the same encoding tag, for every encoding E.
C1_NoOpReturnsInput ==
    (/\ op = "as_encoded_array"
     /\ IsEncoded(arg)
     /\ target \in {NoEncoding, arg.encoding})
    => (/\ ret = arg
        /\ ret.oid = "a"
        /\ ret.data = arg.data
        /\ ret.shape = arg.shape
        /\ ret.encoding = arg.encoding)

C1_Witness ==
    /\ op = "as_encoded_array"
    /\ arg.kind = "EncodedRaggedArray"
    /\ arg.encoding = DNAEncoding
    /\ Len(arg.data[1]) > 1
    /\ target = DNAEncoding
    /\ ret = arg

\* a conversion of an encoded array tagged with a non-Base encoding to another one
C2_Case ==
    /\ op = "as_encoded_array"
    /\ IsEncoded(arg)
    /\ arg.encoding # BaseEncoding
    /\ target \notin {NoEncoding, arg.encoding}

RenderingPunctuation == {91, 93, 44, 32}

Unpunctuated(line) == SelectSeq(line, LAMBDA c : c \notin RenderingPunctuation)

\* the text of the first 20 elements of a row, "..." after them when more exist
First20ThenEllipsis(E, row) ==
    LET shown == Take(row, StrLimit) IN
    Flatten([i \in 1..Len(shown) |-> ToStringElement(E, shown[i])])
        \o (IF Len(row) > StrLimit THEN Ellipsis ELSE <<>>)

C11_RoundTrip ==
    /\ (/\ op = "as_encoded_array"
         /\ arg.kind = "list"
         /\ target \in WrappedEncodings \cup {NoEncoding})
        => (/\ ret.kind = "EncodedRaggedArray"
            /\ ret.shape = Lens(arg.data)
            /\ Len(ret.data[1]) = Len(Flatten(arg.data)))
    /\ (/\ op = "from_encoded_array"
         /\ origin.kind \in {"str", "list"}
         /\ is_one_to_one_encoding(arg.encoding))
        => (/\ ret.kind = origin.kind
            /\ ret.data = origin.data
            /\ Lens(ret.data) = Lens(origin.data))

C11_Witness ==
    /\ op = "from_encoded_array"
    /\ origin.kind = "str"
    /\ Len(origin.data[1]) > StrLimit
    /\ arg.encoding = DNAEncoding
    /\ ret = StrValue(origin.data[1], "new")

\* what as_encoded_array gives for text, for a list of texts and for a raw
\* numeric array when the target is numeric, and for a raw numeric array when
\* the target is not numeric or absent
C14_PlainForNumeric ==
    /\ (op = "as_encoded_array" /\ is_numeric(target) /\ arg.kind = "str")
        => (/\ ret.kind = "ndarray"
            /\ ret.data = Encode(target, arg.data))
    /\ (op = "as_encoded_array" /\ is_numeric(target) /\ arg.kind = "list")
        => (/\ ret.kind = "RaggedArray"
            /\ ret.shape = Lens(arg.data)
            /\ ret.data = <<Flatten(Encode(target, arg.data))>>)
    /\ (op = "as_encoded_array" /\ is_numeric(target) /\ arg.kind = "ndarray")
        => ret = arg
    /\ (op = "as_encoded_array" /\ ~is_numeric(target) /\ arg.kind = "ndarray")
        => (IsRaise(ret) /\ ret.data = <<>>)

\* C14 as stated: with a numeric target as_encoded_array never returns an
\* Encoded (Ragged) Array; text gives a plain numeric array, a list of texts a
\* plain ragged array with the texts' lengths as row lengths, a raw numeric
\* array is returned unchanged; a raw numeric array with a target that is not
\* numeric, or with none, fails.
C14_Original ==
    /\ (op = "as_encoded_array" /\ is_numeric(target)) => ~IsEncoded(ret)
    /\ C14_PlainForNumeric

\* What the code does guarantee: the only Encoded Array returned for a numeric
\* target is the input itself, when it is already tagged with that target.
C14_NumericNeverWrapped ==
    /\ (op = "as_encoded_array" /\ is_numeric(target) /\ IsEncoded(ret))
        => (IsEncoded(arg) /\ arg.encoding = target /\ ret = arg)
    /\ (op = "as_encoded_array" /\ is_numeric(target) /\ IsEncoded(arg)
            /\ arg.encoding = BaseEncoding)
        => ret.kind \in {"ndarray", "RaggedArray"}
    /\ C14_PlainForNumeric

\* the operations that give back an array made from the receiver
ArrayReturning ==
    {"__getitem__", "__iter__", "reshape", "ravel", "as_strided", "concatenate",
     "where", "zeros_like", "append", "insert", "sliding_window_view"}

\* C15: whatever sequence of operations is called on an Encoded Array, each of
\* indexing, iteration, reshape, ravel, as_strided and the whitelisted array
\* functions returns an Encoded Array or Encoded Ragged Array with the
\* encoding of the receiver (an Encoded Ragged Array exactly for an index that
\* yields rows of different lengths, an Encoded Array even for one number as
\* index), item assignment leaves the encoding of the receiver as it was, and
\* the encoding of an Encoded Ragged Array is that of its flat backing array.
C15_EncodingKept ==
    /\ (op \in ArrayReturning /\ ~IsRaise(ret))
        => (/\ IsEncoded(ret)
            /\ ret.encoding = origin.encoding
            /\ arg = origin
            /\ (ret.kind = "EncodedRaggedArray") = (index.kind = "ragged")
            /\ ret.kind = "EncodedRaggedArray"
                => (/\ Ravel(ret).kind = "EncodedArray"
                    /\ Ravel(ret).encoding = ret.encoding))
    /\ op = "__setitem__"
        => (/\ arg.kind = "EncodedArray"
            /\ arg.encoding = origin.encoding
            /\ Len(Items(arg)) = Len(Items(origin)))

C15_Witness ==
    /\ calls = MaxCalls
    /\ op = "__getitem__"
    /\ index.kind = "ragged"
    /\ ret.kind = "EncodedRaggedArray"
    /\ ret.encoding = DNAEncoding
    /\ ret.shape # <<>>
    /\ Len(ret.data[1]) > 1
    /\ origin # NoValue

\* the symbol a stored code stands for under an encoding: none if it is not
\* one of the codes of the encoding
Symbol(E, x) ==
    IF E = DNAEncoding /\ x \notin 0..(Len(Alphabet) - 1) THEN {}
    ELSE IF E = ReducedEncoding /\ x \notin 0..1 THEN {}
    ELSE {DecodeCode(E, x)}

\* C16 as stated: after a[idx] = v with v already encoded, the assigned cells
\* of a stand, under the encoding of a, for the symbols v stands for under its
\* own encoding.
C16_Original ==
    (op = "__setitem__" /\ ~IsRaise(ret) /\ operand.kind = "EncodedArray")
        => LET n == Len(Items(arg))
               cells == AssignedCells(n, index)
               first == IF index.kind = "int" THEN (index.i % n) + 1 ELSE index.lo + 1
               v == Broadcast(Flatten(operand.data), Cardinality(cells))
           IN  \A k \in cells :
                   Symbol(arg.encoding, Items(arg)[k])
                       = Symbol(operand.encoding, v[k - first + 1])

----------------------------------------------------------------------------
(* Claims about the file part *)

\* C3 as stated: bnp_open in mode "a" yields an object that supports
\* write(record_array), so that writing D in mode "w", writing D again in mode
\* "a" and reading the file back gives the rows of D twice.
C3_Original ==
    (out.call = "bnp_open" /\ out.mode = "a" /\ HoldsFileObject)
    => Supports(obj, "write")

\* a bnp_open call with no buffer_type on a name whose format suffix is no key
\* of the suffix table
C4_Case ==
    /\ obj.kind = "none"
    /\ out'.call = "bnp_open"
    /\ out'.buffer_type = NoBufferType
    /\ HasFormatSuffix(path)
    /\ FormatSuffix(path) \notin DOMAIN buffer_types

\* the call failed with the RuntimeError that lists every key of the table,
\* returned no object and left the file system as it was
C4_Outcome ==
    /\ out'.kind = "raise"
    /\ out'.exc = "RuntimeError"
    /\ out'.msg.suffix = FormatSuffix(path)
    /\ \A k \in DOMAIN buffer_types :
           \E i \in 1..Len(out'.msg.supported) : out'.msg.supported[i] = k
    /\ obj' = NoObj
    /\ pc' = "idle"
    /\ disk' = disk

\* C4 as stated: every such call fails with the RuntimeError whose message
\* lists every supported suffix; nothing is returned and no file is opened.
C4_Original == [][C4_Case => C4_Outcome]_vars

\* C4 amended: every such call fails in that way unless the format suffix is
\* .fai, which never reaches the table.
C4_UnknownSuffixFails ==
    [][(C4_Case /\ FormatSuffix(path) # ".fai") => C4_Outcome]_vars

C4_Witness ==
    /\ path = <<".csv", ".gz">>
    /\ ~disk.exists
    /\ out.call = "bnp_open"
    /\ out.mode = "w"
    /\ out.buffer_type = NoBufferType
    /\ out.exc = "RuntimeError"
    /\ Len(out.msg.supported) = Len(SuffixKeys)
    /\ obj = NoObj

\* C5: once the stream of an open reader is exhausted (by read, by read_chunks
\* consumed to its end, by earlier read_chunk calls), every read_chunk call
\* returns a record array of the reader's schema with no rows; it neither raises
\* nor returns None, and the reader stays exhausted.
C5_ReadChunkAfterExhaustion ==
    [][(/\ obj.kind = "NpDataclassReader"
        /\ obj.open
        /\ Exhausted(obj, disk.bytes)
        /\ out'.call = "read_chunk")
       => (/\ out'.kind = "records"
           /\ out'.exc = "none"
           /\ out'.data = RecordArray(dataclass(obj.buffer_type), <<>>)
           /\ obj' = obj)]_vars

C5_Witness ==
    /\ obj.kind = "NpDataclassReader"
    /\ obj.open
    /\ gen.state = "done"
    /\ Len(chunks) > 1
    /\ Exhausted(obj, disk.bytes)
    /\ out.call = "read_chunk"
    /\ out.kind = "records"
    /\ out.data = RecordArray(dataclass(obj.buffer_type), <<>>)

\* the bytes are complete records of the format
CompleteRecords(bytes) ==
    LET pieces == Pieces(bytes, <<>>) IN
    \A i \in 1..Len(pieces) : WellFormed(pieces[i])

ChunkRows == Flatten([i \in 1..Len(chunks) |-> chunks[i].rows])

\* C6: over complete records, for every chunk size and with or without carry-
\* over mode, the record arrays read_chunks yields are arrays of read()'s
\* schema, none of them fails, their rows in order are at every moment the first
\* rows of what one read() of the same content returns, and all of its rows
\* once the stream has ended.
C6_ChunksConcatenateToRead ==
    (/\ obj.kind = "NpDataclassReader"
     /\ gen.state # "none"
     /\ gen.fresh
     /\ CompleteRecords(disk.bytes))
    => LET whole == NpDataclassReader_read(
                        [obj EXCEPT !.pos = 0, !.leftover = <<>>, !.open = TRUE],
                        disk.bytes).out
       IN  /\ whole.kind = "records"
           /\ \A i \in 1..Len(chunks) : chunks[i].type = whole.data.type
           /\ Len(ChunkRows) <= Len(whole.data.rows)
           /\ ChunkRows = Take(whole.data.rows, Len(ChunkRows))
           /\ gen.state = "done" => ChunkRows = whole.data.rows
           /\ out.call = "next" => out.exc \in {"none", "ValueError"}
           /\ gen.state = "failed" => ~obj.open

C6_Witness ==
    /\ path = <<".fq", ".gz">>
    /\ obj.kind = "NpDataclassReader"
    /\ obj.do_prepend
    /\ gen.state = "done"
    /\ gen.fresh
    /\ gen.size = 2
    /\ disk.bytes = from_data(<<2, 1>>)
    /\ Len(chunks) > 2
    /\ ChunkRows = <<2, 1>>

\* C9 as stated: on a name that dispatches to the indexed FASTA reader, bnp_open
\* in each of the modes "w", "write", "wb" and "a" fails and builds no indexed
\* reader.
C9_Original ==
    (/\ out.call = "bnp_open"
     /\ DispatchesToIndex(path)
     /\ out.mode \in {"w", "write", "wb", "a"})
    => (out.kind = "raise" /\ obj.kind # "IndexedFasta")

\* C10: the stream of a reader that bnp_open returned to a with-statement is
\* open inside the block and closed from the moment the block is left, whether
\* the block ended normally or a call inside it raised.
C10_ClosedWhenBlockLeft ==
    (obj.kind = "NpDataclassReader" /\ obj.scoped)
    => (obj.open <=> pc = "with")

C10_Witness ==
    /\ obj.kind = "NpDataclassReader"
    /\ obj.scoped
    /\ pc = "idle"
    /\ ~obj.open
    /\ out.call = "read"
    /\ out.exc = "FormatException"

\* the file is read or written through gzip: the name ends in .gz or in .bam
Compressed(filename) == filename[Len(filename)] \in {".gz", ".bam"}

C17_Original ==
    (/\ out.call \in {"bnp_open", "count_entries"}
     /\ out.buffer_type = NoBufferType
     /\ ~HasFormatSuffix(path))
    => (out.kind = "raise" /\ out.exc = "RuntimeError")

\* C18 as stated: when a count_entries call has ended, with the count or with
\* an error, the stream it opened is closed.
C18_Original ==
    out.call = "count_entries" => ~counted.open

----------------------------------------------------------------------------
(* Claims about the chromosome part *)

\* the names and the data values of the pairs yielded so far
EmittedNamesAndData ==
    [i \in 1..Len(emitted) |-> <<emitted[i].name, emitted[i].group.data>>]

\* C7 as stated: over the fixture the provider yields six pairs named chr1,
\* chr2, chr3, chr4, "\x00chr5", chr16 with the data [0,1,2], [3], [4], [5],
\* [6,7], [8], in this order, and nothing else.
C7_Original ==
    (buffers = FixtureBuffers /\ stream = "exhausted")
    => EmittedNamesAndData =
           <<<<chr1, <<0, 1, 2>>>>, <<chr2, <<3>>>>, <<chr3, <<4>>>>, <<chr4, <<5>>>>,
             <<NullPrefixed(chr5), <<6, 7>>>>, <<chr16, <<8>>>>>>

\* C7 amended: over the fixture the provider yields those six groups in that
\* order and nothing else, the fifth under the name chr5 without the null byte;
\* the row with the padded name continues the group of chr5, and both rows of
\* that group carry the padded name.
C7_FixtureGroups ==
    buffers = FixtureBuffers
    => /\ Len(emitted) <= Len(FixtureExpected)
       /\ emitted = Take(FixtureExpected, Len(emitted))
       /\ stream = "exhausted" => emitted = FixtureExpected

C7_Witness ==
    /\ buffers = FixtureBuffers
    /\ stream = "exhausted"
    /\ Len(emitted) = 6
    /\ emitted[5].name = chr5
    /\ emitted[5].group.data = <<6, 7>>

\* the rows of all input chunks, in order: their names without padding, their data
InputNames ==
    Flatten([i \in 1..Len(buffers) |->
                [j \in 1..Len(buffers[i].chromosome) |->
                    get_chrom_name(buffers[i].chromosome[j])]])

InputData == Flatten([i \in 1..Len(buffers) |-> buffers[i].data])

\* the names of a row sequence in first-seen order, each once
RECURSIVE FirstSeen(_)
FirstSeen(names) ==
    IF names = <<>> THEN <<>>
    ELSE LET before == FirstSeen(SubSeq(names, 1, Len(names) - 1))
             last == names[Len(names)]
         IN  IF \E i \in 1..Len(before) : before[i] = last THEN before
             ELSE Append(before, last)

EmittedGroups == [i \in 1..Len(emitted) |-> emitted[i].group]

EmittedData == Flatten([i \in 1..Len(emitted) |-> emitted[i].group.data])

\* C12: over a chromosome-contiguous sequence of non-empty chunks, (1) every
\* group the provider yields holds the rows of one chromosome name, the name it
\* is yielded under; (2) the names yielded are the names of the input, each
\* once, in first-seen order; (3) the groups yielded, concatenated, are the input
\* chunks concatenated, row for row, and at every moment the first rows of them;
\* (4) the last group is yielded only once every chunk has been taken, and when
\* the iteration ends no row is left in the provider.
C12_GroupsPartitionInput ==
    buffers # <<>>
    => /\ \A i \in 1..Len(emitted) :
              /\ emitted[i].group.data # <<>>
              /\ Len(emitted[i].group.chromosome) = Len(emitted[i].group.data)
              /\ \A j \in 1..Len(emitted[i].group.chromosome) :
                     /\ emitted[i].group.chromosome[j] = emitted[i].group.chromosome[1]
                     /\ get_chrom_name(emitted[i].group.chromosome[j]) = emitted[i].name
       /\ [i \in 1..Len(emitted) |-> emitted[i].name]
              = Take(FirstSeen(InputNames), Len(emitted))
       /\ EmittedData = Take(InputData, Len(EmittedData))
       /\ Len(emitted) = Len(FirstSeen(InputNames))
              => /\ provider.consumed = Len(buffers)
                 /\ provider.rest.data = <<>>
                 /\ provider.cur_data = <<>>
                 /\ EmittedData = InputData
                 /\ concatenate(EmittedGroups) = concatenate(buffers)
       /\ stream = "exhausted" => Len(emitted) = Len(FirstSeen(InputNames))

C12_Witness ==
    /\ buffers # FixtureBuffers
    /\ Len(buffers) = 3
    /\ stream = "exhausted"
    /\ Len(emitted) = 2
    /\ Len(emitted[1].group.data) = 3
    /\ emitted[1].name = chr5
    /\ emitted[1].group.chromosome[1] = NullPrefixed(chr5)
    /\ emitted[2].name = chr16

====
